---- MODULE Spec2Model ----
(***************************************************************************)
(* Model of zone-transfer.py: the orchestration in main() and the helper   *)
(* functions it calls.  The DNS library, the three external tools and the  *)
(* ipinfo.io service are the environment: every call to them draws its     *)
(* raw result (an exception class, an exit code, stderr, stdout, a JSON    *)
(* body) from a small set, and the helper functions are computed on that   *)
(* raw result the way the Python code computes them.                       *)
(*                                                                         *)
(* Python values:                                                          *)
(*   None                 the string "None" where it stands in ns_servers, *)
(*                        RetNone where it is a strategy's return value    *)
(*   str (tool output)    Str(s), s the sequence of its characters         *)
(*   str (literal)        Str(<<literal>>), the literal as one chunk       *)
(*   tuple of 3 strings   Tuple(n, t, d)                                   *)
(*   list                 a sequence                                       *)
(***************************************************************************)
EXTENDS Integers, Sequences, FiniteSets, TLC

\* ------------------------------------------------------------------ bounds
\* Largest number of NS records in the answer for the domain.
MaxNS == 3
\* Largest number of characters a tool writes on stdout.
MaxOut == 2

\* ------------------------------------------------------------ Python values
None == "None"

Str(s) == [tag |-> "str", v |-> s]

Tuple(n, t, d) == [tag |-> "tuple", v |-> <<n, t, d>>]

\* A call's result: a returned list, a returned None, or a raised exception.
Ret(l) == [kind |-> "list", val |-> l, exc |-> ""]

RetNone == [kind |-> "None", val |-> <<>>, exc |-> ""]

Raise(e) == [kind |-> "raise", val |-> <<>>, exc |-> e]

\* `if records:` -- a non-empty list is the only truthy return value.
Truthy(o) == o.kind = "list" /\ Len(o.val) > 0

\* `elif records is None:`
IsNone(o) == o.kind = "None"

\* ------------------------------------------------------- resolve_ns_to_ip
\* What dns.resolver.resolve(ns_name, 'A') can do: answer with an address or
\* raise.  NoNameservers (every upstream server answered SERVFAIL) and
\* YXDOMAIN are raised by the resolver too and are not in the except tuple.
Addresses == {"192.0.2.1", "192.0.2.2"}

AddrCaught == {"NoAnswer", "NXDOMAIN", "Timeout"}

AddrExceptions == AddrCaught \cup {"NoNameservers"}

AddrResults ==
    {[exc |-> "", addr |-> a] : a \in Addresses}
        \cup {[exc |-> e, addr |-> ""] : e \in AddrExceptions}

\* The result of resolve_ns_to_ip as [kind, val, exc]; val is the address or None.
resolve_ns_to_ip(r) ==
    IF r.exc = "" THEN [kind |-> "value", val |-> r.addr, exc |-> ""]
    ELSE IF r.exc \in AddrCaught THEN [kind |-> "value", val |-> None, exc |-> ""]
    ELSE [kind |-> "raise", val |-> None, exc |-> r.exc]

\* ------------------------------------------------- zone_transfer_dnspython
\* A zone is what dns.zone.from_xfr returns: nodes in order, each with its
\* rdatasets, each with its rdatas.
RD(t, ds) == [rdtype |-> t, rdatas |-> ds]

Node(n, rs) == [name |-> n, rdatasets |-> rs]

SOA == RD("SOA", <<"ns1. admin. 1">>)

\* The empty zone stands for a transfer that yields no record at all: the
\* code has a branch for it (a list that is neither truthy nor None).
Zones ==
    { <<>>,
      << Node("@", <<SOA, RD("NS", <<"ns1.">>)>>) >>,
      << Node("@", <<SOA, RD("NS", <<"ns1.", "ns2.">>)>>), Node("www", <<RD("A", <<"1.2.3.4">>)>>) >>,
      << Node("@", <<SOA, RD("NS", <<"ns1.">>)>>), Node("empty", <<>>) >> }

\* for rdata in rdataset: records.append((name, type, rdata))
RECURSIVE RdataRecords(_, _, _)
RdataRecords(name, rdtype, ds) ==
    IF ds = <<>> THEN <<>>
    ELSE <<Tuple(name, rdtype, Head(ds))>> \o RdataRecords(name, rdtype, Tail(ds))

\* for rdataset in node.rdatasets
RECURSIVE NodeRecords(_, _)
NodeRecords(name, rs) ==
    IF rs = <<>> THEN <<>>
    ELSE RdataRecords(name, Head(rs).rdtype, Head(rs).rdatas) \o NodeRecords(name, Tail(rs))

\* for name, node in zone.nodes.items()
RECURSIVE ZoneRecords(_)
ZoneRecords(z) ==
    IF z = <<>> THEN <<>>
    ELSE NodeRecords(Head(z).name, Head(z).rdatasets) \o ZoneRecords(Tail(z))

\* The two except tuples of zone_transfer_dnspython.
XfrCaught ==
    {"TransferError", "ConnectionResetError", "FormError", "BadResponse",
     "UnexpectedSource", "Timeout", "ValueError"}

\* What dns.zone.from_xfr(dns.query.xfr(server, domain)) can raise: the seven
\* above, and also a refused TCP connection (ConnectionRefusedError, an
\* OSError that is not ConnectionResetError) and a zone without SOA
\* (dns.zone.NoSOA), neither of which the code names.
XfrExceptions == XfrCaught \cup {"ConnectionRefusedError", "NoSOA"}

XfrResults ==
    {[exc |-> "", zone |-> z] : z \in Zones}
        \cup {[exc |-> e, zone |-> <<>>] : e \in XfrExceptions}

zone_transfer_dnspython(x) ==
    IF x.exc = "" THEN Ret(ZoneRecords(x.zone))
    ELSE IF x.exc \in XfrCaught THEN RetNone
    ELSE Raise(x.exc)

\* ------------------------------------------------- the external-tool calls
\* A character of stdout is a line break or anything else.
NL == "\n"

Chars == {"x", NL}

RECURSIVE SeqsUpTo(_, _)
SeqsUpTo(S, n) ==
    IF n = 0 THEN {<<>>}
    ELSE SeqsUpTo(S, n - 1) \cup {Append(s, c) : s \in SeqsUpTo(S, n - 1), c \in S}

Stdouts == SeqsUpTo(Chars, MaxOut)

\* str.splitlines(): the text before each line break is a line (an empty one
\* too); text after the last line break is a line only when it is not empty.
RECURSIVE SplitFrom(_, _)
SplitFrom(s, cur) ==
    IF s = <<>> THEN (IF cur = <<>> THEN <<>> ELSE <<Str(cur)>>)
    ELSE IF Head(s) = NL THEN <<Str(cur)>> \o SplitFrom(Tail(s), <<>>)
    ELSE SplitFrom(Tail(s), Append(cur, Head(s)))

splitlines(s) == SplitFrom(s, <<>>)

\* stderr is modelled by the set of marker strings that occur in it.
Markers == {"transfer failed", "Transfer failed"}

\* What subprocess.run(..., capture_output=True, text=True) can do: raise (the
\* tool is not installed: FileNotFoundError) or return a completed process.
ToolResults ==
    {[exc |-> "", returncode |-> rc, stderr |-> e, stdout |-> o] :
        rc \in {0, 1}, e \in SUBSET Markers, o \in Stdouts}
        \cup {[exc |-> "FileNotFoundError", returncode |-> 0, stderr |-> {}, stdout |-> <<>>]}

\* The common body of the three tool strategies, with the tool's marker.
ToolTransfer(marker, x) ==
    IF x.exc # "" THEN RetNone
    ELSE IF marker \in x.stderr \/ x.returncode # 0 THEN RetNone
    ELSE LET records == splitlines(x.stdout)
         IN IF records # <<>> THEN Ret(records) ELSE RetNone

\* Faulty variant: the split output is returned even when it is empty.
zone_transfer_nslookup_Mutant(x) ==
    IF x.exc # "" THEN RetNone
    ELSE IF "transfer failed" \in x.stderr \/ x.returncode # 0 THEN RetNone
    ELSE Ret(splitlines(x.stdout))

zone_transfer_nslookup(x) == ToolTransfer("transfer failed", x)

\* Faulty variant: the exit code is not looked at.
zone_transfer_dig_Mutant(x) ==
    IF x.exc # "" THEN RetNone
    ELSE IF "Transfer failed" \in x.stderr THEN RetNone
    ELSE LET records == splitlines(x.stdout)
         IN IF records # <<>> THEN Ret(records) ELSE RetNone

zone_transfer_dig(x) == ToolTransfer("Transfer failed", x)

zone_transfer_nmap(x) == ToolTransfer("Transfer failed", x)

\* --------------------------------------------------- fetch_asn_description
AsnPlaceholder == "ASN description not available"

\* What requests.get(...) and response.json() can do: a network error, a body
\* that is not JSON, JSON that is not an object, an object without "org", an
\* object with "org".
AsnResponses ==
    {[kind |-> k, org |-> ""] : k \in {"neterr", "malformed", "nondict", "noorg"}}
        \cup {[kind |-> "org", org |-> "AS64500 Example Net"]}

AsnFails(resp) == resp.kind \in {"neterr", "malformed", "nondict"}

\* Faulty variant: the error of requests.get is not caught.
fetch_asn_description_Mutant(resp) ==
    IF resp.kind = "neterr" THEN [kind |-> "raise", val |-> ""]
    ELSE IF AsnFails(resp) THEN [kind |-> "value", val |-> AsnPlaceholder]
    ELSE IF resp.kind = "org" THEN [kind |-> "value", val |-> resp.org]
    ELSE [kind |-> "value", val |-> AsnPlaceholder]

fetch_asn_description(resp) ==
    IF AsnFails(resp) THEN [kind |-> "value", val |-> AsnPlaceholder]
    ELSE IF resp.kind = "org" THEN [kind |-> "value", val |-> resp.org]
    ELSE [kind |-> "value", val |-> AsnPlaceholder]

\* ------------------------------------------------------------------ state
VARIABLES
    pc,                 \* where main() is: "start", "resolve", "loop", "strategy",
                        \* "asn", "report", "done", "crashed"; "unit" in the harness
    ns_result,          \* what dns.resolver.resolve(domain, 'NS') did: "", "answer" or an exception
    ns_records,         \* the NS host names of the answer
    ns_servers,         \* resolve_ns_to_ip of each, an address or None
    i,                  \* position of the running for loop in its list
    strat,              \* position in the strategy sequence for the current server
    all_records,
    successful,
    calls,              \* history: every strategy call, [server, strategy, out]
    general_info_table, \* rows <<ns_server, asn_description>>
    asn_calls,          \* history: every fetch_asn_description call, [ip, resp, out]
    result_table,       \* [field_names, rows]
    printed,            \* the tables printed, in order
    exit_code,          \* -1 while running
    u_fn, u_in, u_out   \* harness: the function applied, its raw input, its result

vars ==
    <<pc, ns_result, ns_records, ns_servers, i, strat, all_records, successful, calls,
      general_info_table, asn_calls, result_table, printed, exit_code, u_fn, u_in, u_out>>

mainVars ==
    <<ns_result, ns_records, ns_servers, i, strat, all_records, successful, calls,
      general_info_table, asn_calls, result_table, printed, exit_code>>

unitVars == <<u_fn, u_in, u_out>>

\* -------------------------------------------------------- fetch_ns_records
\* Defined in the file and called from nowhere: main() calls the resolver itself.
fetch_ns_records(r) == IF r.exc # "" THEN <<>> ELSE r.answer

\* ------------------------------------------------------------------- main
\* What dns.resolver.resolve(domain, 'NS') can do (line 95, not guarded): raise,
\* or answer with one or more NS targets (an answer is never empty: the
\* resolver raises NoAnswer instead).
NsExceptions == {"NoAnswer", "NXDOMAIN", "NoNameservers", "Timeout"}

NsTarget(k) == [target |-> k]

NsResults ==
    {[exc |-> e, answer |-> <<>>] : e \in NsExceptions}
        \cup {[exc |-> "", answer |-> [k \in 1..n |-> NsTarget(k)]] : n \in 1..MaxNS}

\* The strategies in the order main() calls them for one server.
\* Faulty variant: the first two calls swapped.
StrategyOrder_Mutant == <<"nslookup", "dnspython", "dig", "nmap">>

StrategyOrder == <<"dnspython", "nslookup", "dig", "nmap">>

InputsFor(name) == IF name = "dnspython" THEN XfrResults ELSE ToolResults

Apply(name, x) ==
    CASE name = "dnspython" -> zone_transfer_dnspython(x)
      [] name = "nslookup" -> zone_transfer_nslookup(x)
      [] name = "dig" -> zone_transfer_dig(x)
      [] name = "nmap" -> zone_transfer_nmap(x)

Placeholder == Str(<<"No threats were found. Please try again.">>)

\* `if server is None: continue`
\* Faulty variant: the None test is missing.
Skipped_Mutant(server) == FALSE

Skipped(server) == server = None

\* What main() does with the value strategy number k returned: the if / elif
\* after each call, and falling through to the next call or to the end of the
\* loop body.
\* Faulty variant: continue instead of break after a None.
AfterCall_Mutant(o, k) ==
    IF o.kind = "raise" THEN "raise"
    ELSE IF Truthy(o) THEN "success_break"
    ELSE IF IsNone(o) THEN "next_server"
    ELSE IF k < Len(StrategyOrder) THEN "next_strategy"
    ELSE "next_server"

AfterCall(o, k) ==
    IF o.kind = "raise" THEN "raise"
    ELSE IF Truthy(o) THEN "success_break"
    ELSE IF IsNone(o) THEN "failure_break"
    ELSE IF k < Len(StrategyOrder) THEN "next_strategy"
    ELSE "next_server"

\* `if ns_server:` in the ASN loop.
\* Faulty variant: the truth test is missing.
AsnWanted_Mutant(ns_server) == TRUE

AsnWanted(ns_server) == ns_server # None /\ ns_server # ""

FailureTable ==
    [field_names |-> <<"No threats were found. Please try again.">>,
     rows |-> << <<Str(<<"Transfer failed.">>)>> >>]

\* Faulty variant: the failure table whatever the flag.
ResultTable_Mutant(ok, records) == FailureTable

\* Lines 162-170: the result table.
ResultTable(ok, records) ==
    IF ok
    THEN [field_names |-> <<"Threat successfully found">>,
          rows |-> [j \in 1..Len(records) |-> <<records[j]>>]]
    ELSE FailureTable

NoInput == [exc |-> "not called"]

NoOutput == [kind |-> "", val |-> <<>>, exc |-> ""]

NoTable == [field_names |-> <<>>, rows |-> <<>>]

Init ==
    /\ pc = "start"
    /\ ns_result = ""
    /\ ns_records = <<>>
    /\ ns_servers = <<>>
    /\ i = 1
    /\ strat = 1
    /\ all_records = <<>>
    /\ successful = FALSE
    /\ calls = <<>>
    /\ general_info_table = <<>>
    /\ asn_calls = <<>>
    /\ result_table = NoTable
    /\ printed = <<>>
    /\ exit_code = -1
    /\ u_fn = ""
    /\ u_in = NoInput
    /\ u_out = NoOutput

\* An exception nobody catches: the traceback, and a non-zero exit.
Crash ==
    /\ pc' = "crashed"
    /\ exit_code' = 1

\* Line 95.
ResolveNS ==
    /\ pc = "start"
    /\ \E r \in NsResults :
          IF r.exc # ""
          THEN /\ Crash
               /\ ns_result' = r.exc
               /\ UNCHANGED <<ns_records, i>>
          ELSE /\ ns_result' = "answer"
               /\ ns_records' = r.answer
               /\ pc' = "resolve"
               /\ i' = 1
               /\ UNCHANGED exit_code
    /\ UNCHANGED <<ns_servers, strat, all_records, successful, calls, general_info_table,
                   asn_calls, result_table, printed, unitVars>>

\* Line 96: one element of the list comprehension; after the last one,
\* lines 98-99 and the start of the for loop of line 101.
ResolveAddr ==
    /\ pc = "resolve"
    /\ \E r \in AddrResults :
          LET o == resolve_ns_to_ip(r)
          IN IF o.kind = "raise"
             THEN /\ Crash
                  /\ UNCHANGED <<ns_servers, i, all_records, successful>>
             ELSE /\ ns_servers' = Append(ns_servers, o.val)
                  /\ IF i < Len(ns_records)
                     THEN /\ i' = i + 1
                          /\ pc' = "resolve"
                     ELSE /\ i' = 1
                          /\ pc' = "loop"
                  /\ all_records' = <<>>
                  /\ successful' = FALSE
                  /\ UNCHANGED exit_code
    /\ UNCHANGED <<ns_result, ns_records, strat, calls, general_info_table, asn_calls,
                   result_table, printed, unitVars>>

\* Lines 101-105: the head of the probing loop.
LoopServer ==
    /\ pc = "loop"
    /\ IF i > Len(ns_servers)
       THEN /\ pc' = "asn"
            /\ i' = 1
            /\ UNCHANGED strat
       ELSE IF Skipped(ns_servers[i])
       THEN /\ i' = i + 1
            /\ UNCHANGED <<pc, strat>>
       ELSE /\ pc' = "strategy"
            /\ strat' = 1
            /\ UNCHANGED i
    /\ UNCHANGED <<ns_result, ns_records, ns_servers, all_records, successful, calls,
                   general_info_table, asn_calls, result_table, printed, exit_code, unitVars>>

\* Lines 107-150: one strategy call against ns_servers[i] and the if / elif
\* that follows it.
InvokeStrategy ==
    /\ pc = "strategy"
    /\ \E x \in InputsFor(StrategyOrder[strat]) :
          LET name == StrategyOrder[strat]
              o == Apply(name, x)
              todo == AfterCall(o, strat)
          IN /\ calls' = Append(calls, [server |-> i, strategy |-> name, out |-> o])
             /\ CASE todo = "raise" ->
                      /\ Crash
                      /\ UNCHANGED <<i, strat, all_records, successful>>
                  [] todo = "success_break" ->
                      /\ successful' = TRUE
                      /\ all_records' = all_records \o o.val
                      /\ pc' = "asn"
                      /\ i' = 1
                      /\ UNCHANGED <<strat, exit_code>>
                  [] todo = "failure_break" ->
                      /\ all_records' = Append(all_records, Placeholder)
                      /\ pc' = "asn"
                      /\ i' = 1
                      /\ UNCHANGED <<strat, successful, exit_code>>
                  [] todo = "next_strategy" ->
                      /\ strat' = strat + 1
                      /\ UNCHANGED <<pc, i, all_records, successful, exit_code>>
                  [] todo = "next_server" ->
                      /\ pc' = "loop"
                      /\ i' = i + 1
                      /\ UNCHANGED <<strat, all_records, successful, exit_code>>
    /\ UNCHANGED <<ns_result, ns_records, ns_servers, general_info_table, asn_calls,
                   result_table, printed, unitVars>>

\* Lines 156-159: one turn of the ASN loop, or leaving it.
AsnLoop ==
    /\ pc = "asn"
    /\ IF i > Len(ns_servers)
       THEN /\ pc' = "report"
            /\ UNCHANGED <<i, general_info_table, asn_calls, exit_code>>
       ELSE IF ~AsnWanted(ns_servers[i])
       THEN /\ i' = i + 1
            /\ UNCHANGED <<pc, general_info_table, asn_calls, exit_code>>
       ELSE \E resp \in AsnResponses :
              LET o == fetch_asn_description(resp)
              IN /\ asn_calls' = Append(asn_calls, [ip |-> ns_servers[i], resp |-> resp, out |-> o])
                 /\ IF o.kind = "raise"
                    THEN /\ Crash
                         /\ UNCHANGED <<i, general_info_table>>
                    ELSE /\ general_info_table' =
                                Append(general_info_table, <<ns_servers[i], o.val>>)
                         /\ i' = i + 1
                         /\ UNCHANGED <<pc, exit_code>>
    /\ UNCHANGED <<ns_result, ns_records, ns_servers, strat, all_records, successful, calls,
                   result_table, printed, unitVars>>

\* Lines 162-175, and the normal end of the process.
Report ==
    /\ pc = "report"
    /\ result_table' = ResultTable(successful, all_records)
    /\ printed' = <<"result_table", "general_info_table">>
    /\ pc' = "done"
    /\ exit_code' = 0
    /\ UNCHANGED <<ns_result, ns_records, ns_servers, i, strat, all_records, successful, calls,
                   general_info_table, asn_calls, unitVars>>

Next == ResolveNS \/ ResolveAddr \/ LoopServer \/ InvokeStrategy \/ AsnLoop \/ Report

Spec == Init /\ [][Next]_vars

\* ------------------------------------------------- the functions on their own
\* Each helper applied once to one raw result, outside main(): the way to see
\* zone_transfer_dig, zone_transfer_nmap and fetch_ns_records at work.
InitUnit ==
    /\ pc = "unit"
    /\ ns_result = ""
    /\ ns_records = <<>>
    /\ ns_servers = <<>>
    /\ i = 1
    /\ strat = 1
    /\ all_records = <<>>
    /\ successful = FALSE
    /\ calls = <<>>
    /\ general_info_table = <<>>
    /\ asn_calls = <<>>
    /\ result_table = NoTable
    /\ printed = <<>>
    /\ exit_code = -1
    /\ u_fn = ""
    /\ u_in = NoInput
    /\ u_out = NoOutput

\* The call made and what it gave.
Called(name, x, o) ==
    /\ u_fn' = name
    /\ u_in' = x
    /\ u_out' = o
    /\ UNCHANGED <<pc, mainVars>>

Call_dnspython ==
    /\ pc = "unit"
    /\ u_fn = ""
    /\ \E x \in XfrResults : Called("dnspython", x, zone_transfer_dnspython(x))

Call_nslookup ==
    /\ pc = "unit"
    /\ u_fn = ""
    /\ \E x \in ToolResults : Called("nslookup", x, zone_transfer_nslookup(x))

Call_dig ==
    /\ pc = "unit"
    /\ u_fn = ""
    /\ \E x \in ToolResults : Called("dig", x, zone_transfer_dig(x))

Call_nmap ==
    /\ pc = "unit"
    /\ u_fn = ""
    /\ \E x \in ToolResults : Called("nmap", x, zone_transfer_nmap(x))

Call_fetch_ns_records ==
    /\ pc = "unit"
    /\ u_fn = ""
    /\ \E r \in NsResults : Called("fetch_ns_records", r, Ret(fetch_ns_records(r)))

NextUnit == Call_dnspython \/ Call_nslookup \/ Call_dig \/ Call_nmap \/ Call_fetch_ns_records

\* main() and the functions on their own, side by side.
NextAll == Next \/ NextUnit

SpecAll == (Init \/ InitUnit) /\ [][NextAll]_vars

\* ----------------------------------------------------------------- claims
\* The claims' own words, kept apart from the definitions above.
Conclusive(o) == (o.kind = "list" /\ o.val # <<>>) \/ o.kind = "None"

EmptyOutcome(o) == o.kind = "list" /\ o.val = <<>>

InProbeLoop == pc \in {"loop", "strategy"}

AfterProbeLoop == pc \in {"asn", "report", "done"}

\* resolve_ns_to_ip has returned for every NS host name.
Resolved == ns_result = "answer" /\ Len(ns_servers) = Len(ns_records)

Present == SelectSeq(ns_servers, LAMBDA a : a # None)

LastCall == calls[Len(calls)]

\* The rank the claims give each strategy: library AXFR, nslookup, dig, nmap.
Rank(name) ==
    CASE name = "dnspython" -> 1
      [] name = "nslookup" -> 2
      [] name = "dig" -> 3
      [] name = "nmap" -> 4

\* A server after the one probed last has an address.
LaterServerPresent ==
    /\ calls # <<>>
    /\ \E k \in (LastCall.server + 1)..Len(ns_servers) : ns_servers[k] # None

\* C1: once a strategy call has returned data or None, the probing loop is
\* over: that call is the last strategy call of the run, against any server.
C1_ConclusiveEndsProbing ==
    \A j \in 1..Len(calls) :
        Conclusive(calls[j].out) => (j = Len(calls) /\ ~InProbeLoop)

\* The run ended after a definitive failure on a server that is not the last
\* server with an address.
C1_Witness ==
    /\ pc = "done"
    /\ LaterServerPresent
    /\ LastCall.out.kind = "None"

\* C2: the calls against a server come in the order library AXFR, nslookup,
\* dig, nmap, each at most once; the call of rank k is preceded, immediately
\* and against the same server, by the calls of rank 1..k-1, all of which
\* returned the empty list; a call that returned data or None is the last.
C2_FixedOrderOncePerServer ==
    /\ \A j \in 1..Len(calls) :
          LET k == Rank(calls[j].strategy)
          IN /\ j >= k
             /\ \A m \in 1..(k - 1) :
                   /\ Rank(calls[j - k + m].strategy) = m
                   /\ calls[j - k + m].server = calls[j].server
                   /\ EmptyOutcome(calls[j - k + m].out)
             /\ Conclusive(calls[j].out) => j = Len(calls)
    /\ \A j1, j2 \in 1..Len(calls) :
          (calls[j1].server = calls[j2].server /\ calls[j1].strategy = calls[j2].strategy)
              => j1 = j2
    /\ pc = "strategy" =>
          /\ Len(calls) >= strat - 1
          /\ \A m \in 1..(strat - 1) :
                /\ Rank(calls[Len(calls) - strat + 1 + m].strategy) = m
                /\ calls[Len(calls) - strat + 1 + m].server = i

\* nslookup was called after the library returned the empty list.
C2_Witness ==
    /\ Len(calls) = 2
    /\ calls[2].strategy = "nslookup"
    /\ EmptyOutcome(calls[1].out)
    /\ pc = "done"

\* C3 as claimed: a run whose NS lookup succeeded never ends in an uncaught
\* exception.
C3_NoCrashAfterNsLookup == ns_result = "answer" => pc # "crashed"

\* C4: when every NS host name resolved to None, no strategy is called, the
\* success flag stays false, the run does not crash and the table printed is
\* the failure table.
AllAbsent == Resolved /\ \A k \in 1..Len(ns_servers) : ns_servers[k] = None

C4_AllAbsentNoProbe ==
    AllAbsent =>
        /\ calls = <<>>
        /\ ~successful
        /\ pc \notin {"strategy", "crashed"}
        /\ pc = "done" =>
              /\ result_table = FailureTable
              /\ printed = <<"result_table", "general_info_table">>

C4_Witness ==
    /\ AllAbsent
    /\ Len(ns_servers) >= 2
    /\ pc = "done"

\* C5: when the tables are built, the ASN table has one row per address of
\* ns_servers that is not None, in order, repeated addresses repeated, each
\* row from a lookup of its own; None gets no row and no lookup.
C5_AsnRowPerAddress ==
    pc \in {"report", "done"} =>
        /\ Len(general_info_table) = Len(Present)
        /\ Len(asn_calls) = Len(Present)
        /\ \A j \in 1..Len(Present) :
              /\ general_info_table[j][1] = Present[j]
              /\ asn_calls[j].ip = Present[j]
              /\ general_info_table[j][2] = asn_calls[j].out.val

\* Probing stopped at the first server; a later server has the same address,
\* and one server has none.
C5_Witness ==
    /\ pc = "done"
    /\ LaterServerPresent
    /\ LastCall.server = 1
    /\ \E k \in 2..Len(ns_servers) : ns_servers[k] = ns_servers[1]
    /\ \E k \in 2..Len(ns_servers) : ns_servers[k] = None
    /\ Len(general_info_table) = 2

\* C6: when the library strategy returns a non-empty list R, the flag is
\* true, that call is the only strategy call, and the result table has one
\* row per element of R, in order; no row is a failure text.
LibrarySuccess ==
    /\ calls # <<>>
    /\ calls[1].strategy = "dnspython"
    /\ calls[1].out.kind = "list"
    /\ calls[1].out.val # <<>>

C6_LibraryRecordsAreTheRows ==
    LibrarySuccess =>
        LET R == calls[1].out.val
        IN /\ successful
           /\ Len(calls) = 1
           /\ \A k \in 1..(calls[1].server - 1) : ns_servers[k] = None
           /\ ~InProbeLoop
           /\ pc # "crashed"
           /\ all_records = R
           /\ pc = "done" =>
                 /\ Len(result_table.rows) = Len(R)
                 /\ \A j \in 1..Len(R) : result_table.rows[j] = <<R[j]>>
                 /\ \A j \in 1..Len(R) :
                       /\ result_table.rows[j] # <<Placeholder>>
                       /\ result_table.rows[j] # FailureTable.rows[1]
                 /\ result_table.field_names = <<"Threat successfully found">>

C6_Witness ==
    /\ LibrarySuccess
    /\ Len(calls[1].out.val) >= 3
    /\ calls[1].server > 1
    /\ pc = "done"

\* C7 as claimed: a domain for which no NS record can be resolved does not
\* crash the program.
C7_NoCrashWithoutNsRecords == ns_result \in {"NoAnswer", "NXDOMAIN"} => pc # "crashed"

\* C8: a failing mechanism gives None and no exception, in all four
\* strategies: for a tool a non-zero exit code, its marker in stderr or an
\* exception of the call; for the library the seven listed errors.  In
\* main() a None ends the probing loop with the flag false.
ToolFailed(marker, x) == x.exc # "" \/ x.returncode # 0 \/ marker \in x.stderr

LibraryFailed(x) ==
    x.exc \in {"ConnectionResetError", "TransferError", "FormError", "BadResponse",
               "UnexpectedSource", "Timeout", "ValueError"}

C8_FailureGivesNone ==
    /\ (u_fn = "dnspython" /\ LibraryFailed(u_in)) => u_out = RetNone
    /\ (u_fn = "nslookup" /\ ToolFailed("transfer failed", u_in)) => u_out = RetNone
    /\ (u_fn = "dig" /\ ToolFailed("Transfer failed", u_in)) => u_out = RetNone
    /\ (u_fn = "nmap" /\ ToolFailed("Transfer failed", u_in)) => u_out = RetNone
    /\ \A j \in 1..Len(calls) :
          calls[j].out.kind = "None" =>
              /\ j = Len(calls)
              /\ AfterProbeLoop
              /\ ~successful

\* dig exited non-zero with clean stderr and some output.
C8_Witness ==
    /\ u_fn = "dig"
    /\ u_in.exc = ""
    /\ u_in.returncode # 0
    /\ u_in.stderr = {}
    /\ u_in.stdout # <<>>
    /\ u_out = RetNone

\* C9: fetch_asn_description gives the placeholder when the request raises,
\* the body is malformed or there is no "org"; it raises nothing, its row is
\* added, and the loop goes on to the remaining addresses.
C9_AsnPlaceholder ==
    /\ \A j \in 1..Len(asn_calls) :
          /\ asn_calls[j].resp.kind \in {"neterr", "malformed", "nondict", "noorg"}
                => asn_calls[j].out = [kind |-> "value", val |-> "ASN description not available"]
          /\ asn_calls[j].out.kind = "value"
          /\ Len(general_info_table) >= j
          /\ general_info_table[j] = <<asn_calls[j].ip, asn_calls[j].out.val>>
    /\ asn_calls # <<>> => pc \in {"asn", "report", "done"}
    /\ pc \in {"report", "done"} => Len(asn_calls) = Len(Present)

\* The first lookup raised a network error and a second lookup followed.
C9_Witness ==
    /\ Len(asn_calls) >= 2
    /\ asn_calls[1].resp.kind = "neterr"
    /\ general_info_table[1][2] = "ASN description not available"
    /\ pc = "done"

\* C10: dig and nmap are never called and one server at most is probed; only
\* the library returns the empty list, and once it has, the one call that
\* follows is nslookup's, which ends the probing loop.
C10_OnlyLibraryAndNslookup ==
    /\ \A j \in 1..Len(calls) :
          /\ calls[j].strategy \in {"dnspython", "nslookup"}
          /\ calls[j].server = calls[1].server
          /\ EmptyOutcome(calls[j].out) => calls[j].strategy = "dnspython"
    /\ Len(calls) <= 2
    /\ pc = "loop" => calls = <<>>
    /\ (pc = "strategy" /\ calls # <<>>) =>
          (strat = 2 /\ StrategyOrder[strat] = "nslookup" /\ Len(calls) = 1)
    /\ (calls # <<>> /\ EmptyOutcome(calls[1].out) /\ pc # "strategy") =>
          /\ Len(calls) = 2
          /\ calls[2].strategy = "nslookup"
          /\ Conclusive(calls[2].out)
          /\ AfterProbeLoop

\* The library returned the empty list, nslookup returned lines, and servers
\* with an address were left unprobed.
C10_Witness ==
    /\ Len(calls) = 2
    /\ calls[2].out.kind = "list"
    /\ LaterServerPresent
    /\ pc = "done"

====
